---- MODULE Spec2Model ----
(***************************************************************************)
(* Vercont (vc.py): a file-based snapshot version controller.              *)
(*                                                                         *)
(* The model holds the filesystem, the in-memory Repository object and the *)
(* repository file that save writes and load reads.                        *)
(* A filesystem path is the sequence of its components ("d/b/a" is         *)
(* <<"d","b","a">>); a trailing separator shows as a trailing "" component *)
(* ("e/" is <<"e","">>).  File contents are sequences of bytes.  Python    *)
(* object identity, where the code relies on it (the compressed buffers    *)
(* shared between revisions, the prev link of a Revision), is modelled by  *)
(* an id carried by the object.                                            *)
(***************************************************************************)
EXTENDS Integers, Sequences, FiniteSets, TLC

\* vcr is the repository file (Repository.EXT is 'vcr')
VARIABLES fs, repo, last, vcr

vars == <<fs, repo, last, vcr>>

(***************************************************************************)
(* Bounds of the model.                                                    *)
(***************************************************************************)
\* the longest revision list a branch may reach
MaxRevisions == 2

\* the longest revision list in the specification of buffer sharing
MaxChain == 3

\* file contents the user writes (the empty file included)
Contents == {<<>>, <<1>>}

\* the directory the trunk branch is created on, and the other path it may
\* be pointed at
HomePath == <<"d">>
OtherPath == <<"e">>

\* What the user edits between operations.  A nested tree: the entry b is
\* absent, a file, or a directory that is empty or holds the file a.
UserFiles == {<<"d", "b">>, <<"d", "b", "a">>}
UserDirs == {<<"d">>, <<"d", "b">>}
UserWrites == ({<<"d", "b", "a">>} \X Contents) \cup {<<<<"d", "b">>, <<1>>>>}

\* the files whose modification time the user changes without writing them
UserTouches == {<<"d", "b", "a">>}

\* A flat tree of two files, for the sharing of buffers.
ShareFiles == {<<"d", "a">>, <<"d", "b">>}
ShareWrites == ({<<"d", "a">>} \X Contents) \cup {<<<<"d", "b">>, <<1>>>>}

\* The tree under the update command: b is absent, a file or a directory.
CmdFiles == {<<"d", "b">>}
CmdDirs == {<<"d">>, <<"d", "b">>}
CmdWrites == {<<<<"d", "b">>, <<1>>>>}

\* the path strings handed to the path setter
PathInputs == {HomePath, OtherPath, Append(OtherPath, "")}

\* the orders in which a dict of the program may hand out its keys; under
\* the update command no directory holds two files or two directories, and
\* one order stands for all
Orders == {<<"a", "b">>, <<"b", "a">>}
CmdOrders == {<<"a", "b">>}

\* revision numbers given to update on a branch of at most cap revisions
Nums(cap) == (0 - cap - 1)..cap

\* branch names given to the repository's operations ("" is no name given)
BranchArgs == {""}

\* A tree with files at two depths and of three lengths, for the sizes.
SizeFiles == {<<"d", "a">>, <<"d", "b", "a">>}
SizeDirs == {<<"d", "b">>}
SizeWrites ==
    ({<<"d", "a">>} \X {<<>>, <<1>>}) \cup ({<<"d", "b", "a">>} \X {<<1>>, <<1, 2>>})

\* the entries whose reading may fail during a commit: none, or one of P
ReadFailures(P) == {{}} \cup {{p} : p \in P}

\* the specification of several branches: the names given to the
\* repository's operations ("" is no name given), the file the user writes,
\* the paths given to add_branch, the revision numbers given to update
BranchNames == {"trunk", "dev"}
BranchCallArgs == {""} \cup BranchNames
BranchFiles == {<<"d", "a">>}
BranchWrites == BranchFiles \X {<<1>>}
AddPaths == {HomePath}
BranchNums == {-1, 0}

\* the versions of the files that another release of the program left
OtherVersions == {"0.3.2"}

\* descriptions given to commit
Descs == {"None"}

(***************************************************************************)
(* None, and the values of the model.                                      *)
(***************************************************************************)
\* Python's None where a File or Directory node is expected
NoNode == [kind |-> "none"]

\* Python's None as the prev of the first Revision
NoRev == -1

(***************************************************************************)
(* The filesystem: fs maps every existing path to its entry.  The working  *)
(* directory <<>> always exists.                                           *)
(***************************************************************************)
DirEntry == [kind |-> "dir", data |-> <<>>, mtime |-> 0]

FileEntry(data, mtime) == [kind |-> "file", data |-> data, mtime |-> mtime]

exists(f, p) == p \in DOMAIN f

isdir(f, p) == p \in DOMAIN f /\ f[p].kind = "dir"

IsPrefix(p, q) == Len(p) <= Len(q) /\ SubSeq(q, 1, Len(p)) = p

\* os.listdir(path): the names of the entries directly inside path
listdir(f, p) ==
    {q[Len(q)] : q \in {x \in DOMAIN f : Len(x) = Len(p) + 1 /\ IsPrefix(p, x)}}

\* os.path.join(dest, name)
join(dest, name) == Append(dest, name)

\* os.path.split(path): <<head, tail>>
split(p) ==
    IF Len(p) = 0 THEN <<p, "">> ELSE <<SubSeq(p, 1, Len(p) - 1), p[Len(p)]>>

\* f with path p bound to entry e
Put(f, p, e) == [q \in DOMAIN f \cup {p} |-> IF q = p THEN e ELSE f[q]]

\* f without the entries of the set gone
Drop(f, gone) == [q \in DOMAIN f \ gone |-> f[q]]

\* the entries at or below p
Below(f, p) == {q \in DOMAIN f : IsPrefix(p, q)}

(***************************************************************************)
(* File                                                                    *)
(***************************************************************************)
\* zlib.compress: a stream header followed by the payload
compress(data) == <<120>> \o data

\* zlib.decompress
decompress(z) == Tail(z)

\* File._getdata
getdata(file) == decompress(file.zdata.z)

\* a File.__eq__ that tells by the objects, not by their content
FileEqIs(self, other, sp, op) == self = other

\* File.__eq__; sp and op are the paths of the two files' directories
FileEq(self, other, sp, op) ==
    /\ getdata(self) = getdata(other)
    /\ self.name = other.name
    /\ join(sp, self.name) = join(op, other.name)

\* a File.commit that compares the bytes read with the stored buffer
FileCommitRaw(f, dest, name, prevfile, rid) ==
    LET path == join(dest, name)
        data == f[path].data
    IN  [kind |-> "file",
         name |-> name,
         mtime |-> f[path].mtime,
         zdata |-> IF prevfile.kind = "file" /\ data = prevfile.zdata.z
                     THEN prevfile.zdata
                     ELSE [id |-> <<rid, path>>, z |-> compress(data)],
         prevfile |-> IF prevfile.kind = "file"
                        THEN [kind |-> "file", zdata |-> prevfile.zdata]
                        ELSE NoNode]

\* File.commit: the File node `name` of directory path dest, read from disk.
\* prevfile is the node of the same name in the previous revision's
\* directory (NoNode for none); a buffer made here is a new object, known
\* by the revision object rid and the place it was made for.
FileCommit(f, dest, name, prevfile, rid) ==
    LET path == join(dest, name)
        data == f[path].data
    IN  [kind |-> "file",
         name |-> name,
         mtime |-> f[path].mtime,
         zdata |-> IF prevfile.kind = "file" /\ data = getdata(prevfile)
                     THEN prevfile.zdata
                     ELSE [id |-> <<rid, path>>, z |-> compress(data)],
         prevfile |-> IF prevfile.kind = "file"
                        THEN [kind |-> "file", zdata |-> prevfile.zdata]
                        ELSE NoNode]

\* a File.update that writes the stored buffer as it is
FileUpdateRaw(f, dest, file) ==
    LET path == join(dest, file.name)
    IN  IF isdir(f, path) THEN [ok |-> FALSE, fs |-> f]
        ELSE [ok |-> TRUE, fs |-> Put(f, path, FileEntry(file.zdata.z, 0))]

\* File.update: [ok, fs]; open(path, 'wb') fails on a directory
FileUpdate(f, dest, file) ==
    LET path == join(dest, file.name)
    IN  IF isdir(f, path) THEN [ok |-> FALSE, fs |-> f]
        ELSE [ok |-> TRUE, fs |-> Put(f, path, FileEntry(getdata(file), 0))]

\* File.is_changed
is_changed(file) ==
    file.prevfile.kind = "none" \/ file.zdata.id # file.prevfile.zdata.id

(***************************************************************************)
(* Directory                                                               *)
(***************************************************************************)
\* dict.get(key): the value, or None
Get(d, key) == IF key \in DOMAIN d THEN d[key] ELSE NoNode

\* a Directory.__eq__ without the comparison of the numbers of children
RECURSIVE DirectoryEqNoCount(_, _, _, _)
DirectoryEqNoCount(self, other, sp, op) ==
    LET spath == join(sp, self.name)
        opath == join(op, other.name)
        firstcheck == self.name = other.name /\ spath = opath
    IN  IF ~firstcheck THEN FALSE
        ELSE /\ \A fkey \in DOMAIN self.files :
                    /\ Get(other.files, fkey).kind # "none"
                    /\ FileEq(self.files[fkey], other.files[fkey], spath, opath)
             /\ \A dkey \in DOMAIN self.dirs :
                    /\ Get(other.dirs, dkey).kind # "none"
                    /\ DirectoryEqNoCount(self.dirs[dkey], other.dirs[dkey], spath, opath)

\* Directory.__eq__; sp and op are the paths of the two parents
RECURSIVE DirectoryEq(_, _, _, _)
DirectoryEq(self, other, sp, op) ==
    LET spath == join(sp, self.name)
        opath == join(op, other.name)
        firstcheck ==
            /\ self.name = other.name
            /\ Cardinality(DOMAIN self.files) = Cardinality(DOMAIN other.files)
            /\ Cardinality(DOMAIN self.dirs) = Cardinality(DOMAIN other.dirs)
            /\ spath = opath
    IN  IF ~firstcheck THEN FALSE
        ELSE /\ \A fkey \in DOMAIN self.files :
                    /\ Get(other.files, fkey).kind # "none"
                    /\ FileEq(self.files[fkey], other.files[fkey], spath, opath)
             /\ \A dkey \in DOMAIN self.dirs :
                    /\ Get(other.dirs, dkey).kind # "none"
                    /\ DirectoryEq(self.dirs[dkey], other.dirs[dkey], spath, opath)

\* a Directory.commit that passes over the entries it cannot read
RECURSIVE DirectoryCommitSkip(_, _, _, _, _, _)
DirectoryCommitSkip(f, dest, name, prevdir, rid, bad) ==
    LET path == join(dest, name)
        entries == {e \in listdir(f, path) : join(path, e) \notin bad}
        subdirs == {e \in entries : isdir(f, join(path, e))}
        pvd(e) == IF prevdir.kind = "dir" THEN Get(prevdir.dirs, e) ELSE NoNode
        pvf(e) == IF prevdir.kind = "dir" THEN Get(prevdir.files, e) ELSE NoNode
    IN  [ok |-> TRUE,
         node |-> [kind |-> "dir",
                   name |-> name,
                   files |-> [e \in entries \ subdirs |->
                                FileCommit(f, path, e, pvf(e), rid)],
                   dirs |-> [e \in subdirs |->
                               DirectoryCommitSkip(f, path, e, pvd(e), rid, bad).node]]]

\* Directory.commit: the Directory node `name` of directory path dest,
\* captured from disk against prevdir (NoNode for none).  The result is
\* [ok, node]: ok is false when reading an entry of the set bad failed,
\* which aborts the capture.
RECURSIVE DirectoryCommit(_, _, _, _, _, _)
DirectoryCommit(f, dest, name, prevdir, rid, bad) ==
    LET path == join(dest, name)
        entries == listdir(f, path)
        subdirs == {e \in entries : isdir(f, join(path, e))}
        pvd(e) == IF prevdir.kind = "dir" THEN Get(prevdir.dirs, e) ELSE NoNode
        pvf(e) == IF prevdir.kind = "dir" THEN Get(prevdir.files, e) ELSE NoNode
        sub == [e \in subdirs |-> DirectoryCommit(f, path, e, pvd(e), rid, bad)]
    IN  [ok |-> /\ path \notin bad
                /\ \A e \in entries \ subdirs : join(path, e) \notin bad
                /\ \A e \in subdirs : sub[e].ok,
         node |-> [kind |-> "dir",
                   name |-> name,
                   files |-> [e \in entries \ subdirs |->
                                FileCommit(f, path, e, pvf(e), rid)],
                   dirs |-> [e \in subdirs |-> sub[e].node]]]

\* Directory.update: [ok, fs].  The files are written, then the
\* directories, each dict in the order ord hands out its keys; the first
\* failure (mkdir on an existing file, open on a directory) ends the walk
\* and leaves what was written before it.
RECURSIVE DirectoryUpdate(_, _, _, _), UpdateFiles(_, _, _, _), UpdateDirs(_, _, _, _, _)
UpdateFiles(st, path, files, keys) ==
    IF keys = <<>> \/ ~st.ok THEN st
    ELSE UpdateFiles(FileUpdate(st.fs, path, files[Head(keys)]), path, files, Tail(keys))

UpdateDirs(st, path, dirs, keys, ord) ==
    IF keys = <<>> \/ ~st.ok THEN st
    ELSE UpdateDirs(DirectoryUpdate(st.fs, path, dirs[Head(keys)], ord),
                    path, dirs, Tail(keys), ord)

DirectoryUpdate(f, dest, dir, ord) ==
    LET path == join(dest, dir.name)
        keys(d) == SelectSeq(ord, LAMBDA k : k \in DOMAIN d)
    IN  IF ~isdir(f, path) /\ exists(f, path) THEN [ok |-> FALSE, fs |-> f]
        ELSE LET made == IF isdir(f, path) THEN f ELSE Put(f, path, DirEntry)
                 wrote == UpdateFiles([ok |-> TRUE, fs |-> made], path,
                                      dir.files, keys(dir.files))
             IN  UpdateDirs(wrote, path, dir.dirs, keys(dir.dirs), ord)

\* Directory.datasize: the loop over self.files
RECURSIVE FilesSize(_, _)
FilesSize(dir, keys) ==
    IF keys = {} THEN 0
    ELSE LET k == CHOOSE k \in keys : TRUE
         IN  (IF getdata(dir.files[k]) # <<>> THEN Len(getdata(dir.files[k])) ELSE 0)
               + FilesSize(dir, keys \ {k})

\* a loop over self.dirs that does not descend
DirsSizeFlat(dir, keys) == 0

\* Directory.datasize and its loop over self.dirs
RECURSIVE datasize(_), DirsSize(_, _)
DirsSize(dir, keys) ==
    IF keys = {} THEN 0
    ELSE LET k == CHOOSE k \in keys : TRUE
         IN  datasize(dir.dirs[k]) + DirsSize(dir, keys \ {k})

datasize(dir) == FilesSize(dir, DOMAIN dir.files) + DirsSize(dir, DOMAIN dir.dirs)

(***************************************************************************)
(* Revision                                                                *)
(***************************************************************************)
\* Revision.same_as_prev; prev is the previous Revision, NoNode for none
same_as_prev(root, prev) ==
    prev.kind # "none" /\ DirectoryEq(root, prev.root, <<>>, <<>>)

\* the revision objects a repository holds
RevIds(r) ==
    UNION {{r.branches[b].revisions[i].id :
              i \in 1..Len(r.branches[b].revisions)} : b \in DOMAIN r.branches}

\* a new object's identity: one no object held by the repository has
NewId(r) == CHOOSE n \in 0..Cardinality(RevIds(r)) : n \notin RevIds(r)

(***************************************************************************)
(* Branch                                                                  *)
(***************************************************************************)
\* rstrip(os.sep): the path without its trailing separators
RECURSIVE rstrip(_)
rstrip(p) ==
    IF Len(p) > 0 /\ p[Len(p)] = "" THEN rstrip(SubSeq(p, 1, Len(p) - 1)) ELSE p

\* a path setter that leaves the stored roots' names
set_path_only(b, path) == [b EXCEPT !.path = rstrip(path)]

\* Branch._set_path
set_path(b, path) ==
    LET p == rstrip(path)
        root == split(p)[2]
    IN  [b EXCEPT !.path = p,
                  !.revisions = [i \in 1..Len(b.revisions) |->
                                   [b.revisions[i] EXCEPT !.root.name = root]]]

\* a has_revision that takes the length of the list for an index of it
has_revision_len(b, num) == num \in (0 - Len(b.revisions))..Len(b.revisions)

\* Branch.has_revision
has_revision(b, num) == num \in (0 - Len(b.revisions))..(Len(b.revisions) - 1)

\* negative indices counted from the front of the list
IndexFront(s, num) == IF num >= 0 THEN num + 1 ELSE 0 - num

\* an append that overwrites the last element
appendOver(s, v) == IF s = <<>> THEN <<v>> ELSE [s EXCEPT ![Len(s)] = v]

\* a pop that takes the first element: list.pop(0)
popFirst(s) == Tail(s)

\* list[num] with Python's negative indices, as a position of the sequence
Index(s, num) == IF num >= 0 THEN num + 1 ELSE Len(s) + num + 1

\* list.append(v)
append(s, v) == Append(s, v)

\* list.pop()
pop(s) == SubSeq(s, 1, Len(s) - 1)

\* Branch.commit on branch b of repository r: [exc, ret, branch].  exc is
\* "None" or the exception raised; ret is what the call returned.
BranchCommit(f, r, b, desc, bad) ==
    IF ~isdir(f, b.path) THEN [exc |-> "NotDirectoryError", ret |-> FALSE, branch |-> b]
    ELSE
      LET num == Len(b.revisions)
          prev == IF num = 0 THEN NoNode ELSE b.revisions[Index(b.revisions, -1)]
          parts == split(b.path)
          rid == NewId(r)
          cap == DirectoryCommit(f, parts[1], parts[2],
                                 IF prev.kind = "none" THEN NoNode ELSE prev.root,
                                 rid, bad)
          v == [kind |-> "rev", id |-> rid, num |-> num, desc |-> desc,
                root |-> cap.node,
                prev |-> IF prev.kind = "none" THEN NoRev ELSE prev.id]
          sthnew == ~same_as_prev(cap.node, prev)
      IN  IF ~cap.ok THEN [exc |-> "IOError", ret |-> FALSE, branch |-> b]
          ELSE [exc |-> "None", ret |-> sthnew,
                branch |-> IF sthnew
                             THEN [b EXCEPT !.revisions = append(@, v)]
                             ELSE b]

\* a Branch.update that restores into the monitored path, not beside it
BranchUpdateInto(f, b, num, ord) ==
    IF ~has_revision(b, num) THEN [exc |-> "NoSuchRevisionError", fs |-> f]
    ELSE IF Index(b.revisions, num) \notin DOMAIN b.revisions
    THEN [exc |-> "IndexError", fs |-> f]
    ELSE LET rev == b.revisions[Index(b.revisions, num)]
             res == DirectoryUpdate(f, b.path, rev.root, ord)
         IN  [exc |-> IF res.ok THEN "None" ELSE "IOError", fs |-> res.fs]

\* Branch.update: [exc, fs]; indexing a list outside its range raises
\* IndexError
BranchUpdate(f, b, num, ord) ==
    IF ~has_revision(b, num) THEN [exc |-> "NoSuchRevisionError", fs |-> f]
    ELSE IF Index(b.revisions, num) \notin DOMAIN b.revisions
    THEN [exc |-> "IndexError", fs |-> f]
    ELSE LET rev == b.revisions[Index(b.revisions, num)]
             res == DirectoryUpdate(f, split(b.path)[1], rev.root, ord)
         IN  [exc |-> IF res.ok THEN "None" ELSE "IOError", fs |-> res.fs]

(***************************************************************************)
(* Repository                                                              *)
(***************************************************************************)
DEFAULT_BRANCH == "trunk"

\* __modelversion__
modelversion == "0.3.3"

\* Branch.__init__ (after its _check_path)
NewBranch(name, path) == set_path([name |-> name, path |-> <<>>, revisions |-> <<>>], path)

\* Repository.__init__
NewRepository(path) ==
    [branches |-> [n \in {DEFAULT_BRANCH} |-> NewBranch(DEFAULT_BRANCH, path)],
     defbranch |-> DEFAULT_BRANCH,
     ver |-> modelversion]

\* Repository.has_branch
has_branch(r, branchname) == branchname \in DOMAIN r.branches

\* a Repository.commit that takes the default branch for an unknown name
RepositoryCommitAny(f, r, desc, branchname, bad) ==
    IF ~has_branch(r, r.defbranch)
    THEN [exc |-> "KeyError", ret |-> FALSE, repo |-> r]
    ELSE LET bn == IF has_branch(r, branchname) THEN branchname ELSE r.defbranch
             res == BranchCommit(f, r, r.branches[bn], desc, bad)
         IN  [exc |-> res.exc, ret |-> res.ret,
              repo |-> [r EXCEPT !.branches[bn] = res.branch]]

\* Repository.commit: [exc, ret, repo]; self.branches[branchname] raises
\* KeyError when the default branch is no key of the dict
RepositoryCommit(f, r, desc, branchname, bad) ==
    IF branchname # "" /\ ~has_branch(r, branchname)
    THEN [exc |-> "NoSuchBranchError", ret |-> FALSE, repo |-> r]
    ELSE IF branchname = "" /\ ~has_branch(r, r.defbranch)
    THEN [exc |-> "KeyError", ret |-> FALSE, repo |-> r]
    ELSE LET bn == IF branchname # "" THEN branchname ELSE r.defbranch
             res == BranchCommit(f, r, r.branches[bn], desc, bad)
         IN  [exc |-> res.exc, ret |-> res.ret,
              repo |-> [r EXCEPT !.branches[bn] = res.branch]]

\* Repository.update: [exc, fs]
RepositoryUpdate(f, r, revno, branchname, ord) ==
    IF branchname # "" /\ ~has_branch(r, branchname)
    THEN [exc |-> "NoSuchBranchError", fs |-> f]
    ELSE IF branchname = "" /\ ~has_branch(r, r.defbranch)
    THEN [exc |-> "KeyError", fs |-> f]
    ELSE LET bn == IF branchname # "" THEN branchname ELSE r.defbranch
         IN  BranchUpdate(f, r.branches[bn], revno, ord)

\* an add_branch whose new branch starts with the default branch's history
add_branch_copy(f, r, branchname, path) ==
    IF has_branch(r, branchname) THEN [exc |-> "BranchExistsError", repo |-> r]
    ELSE IF ~isdir(f, path) THEN [exc |-> "NotDirectoryError", repo |-> r]
    ELSE [exc |-> "None",
          repo |-> [r EXCEPT !.branches =
                      [n \in DOMAIN r.branches \cup {branchname} |->
                         IF n = branchname
                         THEN [name |-> branchname, path |-> path,
                               revisions |-> IF has_branch(r, r.defbranch)
                                               THEN r.branches[r.defbranch].revisions
                                               ELSE <<>>]
                         ELSE r.branches[n]]]]

\* Repository.add_branch: [exc, repo]; Branch.__init__ checks the path
add_branch(f, r, branchname, path) ==
    IF has_branch(r, branchname) THEN [exc |-> "BranchExistsError", repo |-> r]
    ELSE IF ~isdir(f, path) THEN [exc |-> "NotDirectoryError", repo |-> r]
    ELSE [exc |-> "None",
          repo |-> [r EXCEPT !.branches =
                      [n \in DOMAIN r.branches \cup {branchname} |->
                         IF n = branchname THEN NewBranch(branchname, path)
                         ELSE r.branches[n]]]]

\* Repository.remove_branch: [exc, repo]
remove_branch(r, branchname) ==
    IF ~has_branch(r, branchname) THEN [exc |-> "NoSuchBranchError", repo |-> r]
    ELSE [exc |-> "None",
          repo |-> [r EXCEPT !.branches =
                      [n \in DOMAIN r.branches \ {branchname} |-> r.branches[n]]]]

\* Repository._set_defbranch: [exc, repo]
set_defbranch(r, branchname) ==
    IF ~has_branch(r, branchname) THEN [exc |-> "NoSuchBranchError", repo |-> r]
    ELSE [exc |-> "None", repo |-> [r EXCEPT !.defbranch = branchname]]

(***************************************************************************)
(* Persistence.  The repository file holds a pickle: a stream of opcodes   *)
(* that ends with STOP.  A token [op, key, val] of the model stands for    *)
(* the opcodes of one part of the object: the object's class (NEWOBJ), an  *)
(* attribute of its state (ver, defbranch), an item of its branches dict   *)
(* (branch), the installation of the state (BUILD), the end (STOP).        *)
(***************************************************************************)
Tok(op, key, val) == [op |-> op, key |-> key, val |-> val]

\* the keys of a dict in the order its iteration hands them out
RECURSIVE Keys(_)
Keys(S) == IF S = {} THEN <<>>
           ELSE LET k == CHOOSE k \in S : TRUE IN <<k>> \o Keys(S \ {k})

\* pickle.dump(obj, f, pickle.HIGHEST_PROTOCOL) of an object of class cls
\* with the state of r
pickle_dump(cls, r) ==
    <<Tok("PROTO", "2", NoNode), Tok("NEWOBJ", cls, NoNode),
      Tok("ver", r.ver, NoNode), Tok("defbranch", r.defbranch, NoNode)>>
      \o [i \in 1..Cardinality(DOMAIN r.branches) |->
            Tok("branch", Keys(DOMAIN r.branches)[i],
                r.branches[Keys(DOMAIN r.branches)[i]])]
      \o <<Tok("BUILD", "", NoNode), Tok("STOP", "", NoNode)>>

\* the unpickler's state after the opcodes of s: the object it made, the
\* state it collected for it, and whether BUILD installed that state
NoObj == [cls |-> "", ver |-> "", defbranch |-> "", branches |-> <<>>]

RECURSIVE Feed(_, _)
Feed(m, s) ==
    IF s = <<>> THEN m
    ELSE LET t == Head(s)
             m2 == CASE t.op = "NEWOBJ" -> [m EXCEPT !.obj.cls = t.key]
                     [] t.op = "ver" -> [m EXCEPT !.state.ver = t.key]
                     [] t.op = "defbranch" -> [m EXCEPT !.state.defbranch = t.key]
                     [] t.op = "branch" ->
                          [m EXCEPT !.state.branches =
                             [n \in DOMAIN @ \cup {t.key} |->
                                IF n = t.key THEN t.val ELSE @[n]]]
                     [] t.op = "BUILD" ->
                          [m EXCEPT !.obj = [m.state EXCEPT !.cls = m.obj.cls]]
                     [] OTHER -> m
         IN  Feed(m2, Tail(s))

\* the place of the first STOP of a stream, 0 when it has none
FirstStop(s) ==
    IF \E i \in 1..Len(s) : s[i].op = "STOP"
    THEN CHOOSE i \in 1..Len(s) :
           s[i].op = "STOP" /\ \A j \in 1..(i - 1) : s[j].op # "STOP"
    ELSE 0

\* an unpickler that takes the end of the stream for STOP and installs
\* what it has read
pickle_load_eof(s) ==
    LET m == Feed([obj |-> NoObj, state |-> NoObj], s)
    IN  [exc |-> "None", obj |-> [m.state EXCEPT !.cls = m.obj.cls]]

\* pickle.load(f): [exc, obj]; the object is returned at STOP, and a
\* stream that ends before STOP raises EOFError
pickle_load(s) ==
    IF FirstStop(s) = 0 THEN [exc |-> "EOFError", obj |-> NoObj]
    ELSE [exc |-> "None",
          obj |-> Feed([obj |-> NoObj, state |-> NoObj],
                       SubSeq(s, 1, FirstStop(s) - 1)).obj]

\* Repository.save: the file it leaves when it writes all the stream (cut
\* is the stream's length), or is interrupted after cut opcodes; open(name,
\* 'wb') has emptied the file before the first
RepositorySave(r, cut) ==
    [exists |-> TRUE, stream |-> SubSeq(pickle_dump("Repository", r), 1, cut)]

\* the lengths at which a save of r may end: all of them when it may be
\* interrupted, the whole stream when not
SaveCuts(r, interrupted) ==
    IF interrupted THEN 0..(Len(pickle_dump("Repository", r)) - 1)
    ELSE {Len(pickle_dump("Repository", r))}

\* a check of the loaded object that does not look at its version
RepositoryCheckAnyVer(u) ==
    IF u.exc # "None" THEN [exc |-> u.exc, repo |-> NoObj]
    ELSE IF u.obj.cls # "Repository" THEN [exc |-> "BadDataError", repo |-> NoObj]
    ELSE [exc |-> "None",
          repo |-> [branches |-> u.obj.branches, defbranch |-> u.obj.defbranch,
                    ver |-> u.obj.ver]]

\* Repository.load after pickle.load gave u: the isinstance and version test
RepositoryCheck(u) ==
    IF u.exc # "None" THEN [exc |-> u.exc, repo |-> NoObj]
    ELSE IF u.obj.cls # "Repository" \/ u.obj.ver # modelversion
    THEN [exc |-> "BadDataError", repo |-> NoObj]
    ELSE [exc |-> "None",
          repo |-> [branches |-> u.obj.branches, defbranch |-> u.obj.defbranch,
                    ver |-> u.obj.ver]]

\* Repository.load: [exc, repo]; open raises IOError when there is no file
RepositoryLoad(vc) ==
    IF ~vc.exists THEN [exc |-> "IOError", repo |-> NoObj]
    ELSE RepositoryCheck(pickle_load(vc.stream))

\* _load_repo: IOError, OSError, PickleError and BadDataError become Usage
load_repo_usage(ld) ==
    IF ld.exc \in {"IOError", "BadDataError"} THEN [ld EXCEPT !.exc = "Usage"] ELSE ld

load_repo(vc) == load_repo_usage(RepositoryLoad(vc))

(***************************************************************************)
(* shutil.rmtree(path): what it may leave.  It removes the entries below   *)
(* a directory before the directory; when it fails it has removed a set of *)
(* entries closed under that order, and the directory itself stays.        *)
(***************************************************************************)
RmtreePartial(f, path) ==
    {gone \in SUBSET (Below(f, path) \ {path}) :
        \A q \in gone : Below(f, q) \subseteq gone}

(***************************************************************************)
(* c_update: the destructive update of the command line.  Its result is    *)
(* [exc, backup, fs, repo], backup being has_backup.  bad is the set of    *)
(* entries whose reading fails during the backup commit; rmfail tells that *)
(* rmtree fails, after it removed the entries of the set gone.             *)
(***************************************************************************)
\* the end of c_update: the outcome of its last repo.update
c_update_finish(has_backup, r, res) ==
    [exc |-> res.exc, backup |-> has_backup, fs |-> res.fs, repo |-> r]

\* the except branch: rmtree raised, the content was reverted by back, the
\* exception is raised again (or the one of the revert)
c_update_revert(bk, back) ==
    [exc |-> IF back.exc = "None" THEN "OSError" ELSE back.exc,
     backup |-> bk.ret, fs |-> back.fs, repo |-> bk.repo]

\* an else branch that keeps the backup revision
c_update_keep(bk, bn) == bk.repo

\* the else branch: if has_backup: revisions.pop()
c_update_discard(bk, bn) ==
    IF bk.ret THEN [bk.repo EXCEPT !.branches[bn].revisions = pop(@)] ELSE bk.repo

\* a wipe that removes nothing
c_update_unwiped(f, bk, r2, num, bn, ord) ==
    c_update_finish(bk.ret, r2, RepositoryUpdate(f, r2, num, bn, ord))

\* rmtree(b.path) done, then repo.update(num, branchname) on repository r2
c_update_wiped(f, bk, r2, num, bn, ord) ==
    c_update_finish(bk.ret, r2,
        RepositoryUpdate(Drop(f, Below(f, r2.branches[bn].path)), r2, num, bn, ord))

\* an if isdir branch whose except clause raises again without reverting
c_update_backed_raise(f, r, bk, num, bn, rmfail, gone, ord) ==
    IF bk.exc # "None"
    THEN [exc |-> bk.exc, backup |-> FALSE, fs |-> f, repo |-> r]
    ELSE IF rmfail
    THEN [exc |-> "OSError", backup |-> bk.ret, fs |-> Drop(f, gone), repo |-> bk.repo]
    ELSE c_update_wiped(f, bk, c_update_discard(bk, bn), num, bn, ord)

\* the if isdir branch, bk being the outcome of the backup commit
c_update_backed(f, r, bk, num, bn, rmfail, gone, ord) ==
    IF bk.exc # "None"
    THEN [exc |-> bk.exc, backup |-> FALSE, fs |-> f, repo |-> r]
    ELSE IF rmfail
    THEN c_update_revert(bk, RepositoryUpdate(Drop(f, gone), bk.repo, -1, bn, ord))
    ELSE c_update_wiped(f, bk, c_update_discard(bk, bn), num, bn, ord)

\* no backup commit at all
c_update_backup_skip(f, r, bn, bad) == [exc |-> "None", ret |-> FALSE, repo |-> r]

\* has_backup = repo.commit('BACKUP', branchname): [exc, ret, repo]
c_update_backup(f, r, bn, bad) == RepositoryCommit(f, r, "BACKUP", bn, bad)

c_update(f, r, num, branchname, bad, rmfail, gone, ord) ==
    LET bn == IF branchname # "" THEN branchname ELSE r.defbranch
    IN  IF ~has_branch(r, bn) \/ ~has_revision(r.branches[bn], num)
        THEN [exc |-> "Usage", backup |-> FALSE, fs |-> f, repo |-> r]
        ELSE IF isdir(f, r.branches[bn].path)
        THEN c_update_backed(f, r, c_update_backup(f, r, bn, bad),
                             num, bn, rmfail, gone, ord)
        ELSE c_update_finish(FALSE, r, RepositoryUpdate(f, r, num, bn, ord))

(***************************************************************************)
(* The state machine.  last records the operation that ran last: its       *)
(* name, the branch name and the revision number it was given, the         *)
(* exception it raised ("None" for none) and what it returned (for the     *)
(* update command: whether it took a backup revision).                     *)
(***************************************************************************)
Idle == [op |-> "init", branch |-> "", num |-> 0, exc |-> "None", ret |-> FALSE]

\* no repository file in the working directory
NoFile == [exists |-> FALSE, stream |-> <<>>]

Init ==
    /\ fs = [p \in {<<>>, HomePath} |-> DirEntry]
    /\ repo = NewRepository(HomePath)
    /\ last = Idle
    /\ vcr = NoFile

\* the user writes a file
UserWrite(W) ==
    \E w \in W :
        /\ isdir(fs, split(w[1])[1])
        /\ ~isdir(fs, w[1])
        /\ fs' = Put(fs, w[1], FileEntry(w[2], 0))
        /\ last' = [Idle EXCEPT !.op = "user"]
        /\ UNCHANGED <<repo, vcr>>

\* the user makes a directory
UserMkdir(D) ==
    \E p \in D :
        /\ isdir(fs, split(p)[1])
        /\ ~exists(fs, p)
        /\ fs' = Put(fs, p, DirEntry)
        /\ last' = [Idle EXCEPT !.op = "user"]
        /\ UNCHANGED <<repo, vcr>>

\* the user removes a file, or a directory with all it holds
UserRemove(P) ==
    \E p \in P :
        /\ exists(fs, p)
        /\ fs' = Drop(fs, Below(fs, p))
        /\ last' = [Idle EXCEPT !.op = "user"]
        /\ UNCHANGED <<repo, vcr>>

\* the user changes a file's modification time
UserTouch(P) ==
    \E p \in P :
        /\ exists(fs, p) /\ fs[p] = FileEntry(fs[p].data, 0)
        /\ fs' = Put(fs, p, FileEntry(fs[p].data, 1))
        /\ last' = [Idle EXCEPT !.op = "user"]
        /\ UNCHANGED <<repo, vcr>>

\* every branch of r holds at most cap revisions
Within(r, cap) ==
    \A b \in DOMAIN r.branches : Len(r.branches[b].revisions) <= cap

\* Repository.commit(desc, branchname), reading the entries of bad failing
CommitCall(desc, bn, bad) ==
    LET res == RepositoryCommit(fs, repo, desc, bn, bad)
    IN  /\ repo' = res.repo
        /\ last' = [op |-> "commit", branch |-> bn, num |-> 0,
                    exc |-> res.exc, ret |-> res.ret]
        /\ UNCHANGED <<fs, vcr>>

Commit(cap, P) ==
    \E bn \in BranchArgs, desc \in Descs, bad \in ReadFailures(P) :
        CommitCall(desc, bn, bad) /\ Within(repo', cap)

\* Repository.update(revno, branchname)
UpdateCall(num, bn, ord) ==
    LET res == RepositoryUpdate(fs, repo, num, bn, ord)
    IN  /\ fs' = res.fs
        /\ last' = [op |-> "update", branch |-> bn, num |-> num,
                    exc |-> res.exc, ret |-> FALSE]
        /\ UNCHANGED <<repo, vcr>>

Update(cap, ords) ==
    \E bn \in BranchArgs, num \in Nums(cap), ord \in ords : UpdateCall(num, bn, ord)

\* the path setter of a branch: branch.path = path
SetPath ==
    \E bn \in DOMAIN repo.branches, p \in PathInputs :
        /\ repo' = [repo EXCEPT !.branches[bn] = set_path(@, p)]
        /\ last' = [op |-> "path", branch |-> bn, num |-> 0,
                    exc |-> "None", ret |-> FALSE]
        /\ UNCHANGED <<fs, vcr>>

\* what may go wrong in an update command: nothing, a read during the
\* backup commit, or rmtree after it removed some entries
CUpdateFailures(f, path, P) ==
    {[bad |-> bad, rmfail |-> FALSE, gone |-> {}] : bad \in ReadFailures(P)}
      \cup {[bad |-> {}, rmfail |-> TRUE, gone |-> g] : g \in RmtreePartial(f, path)}

\* the update command has run with the outcome res
CUpdateDone(num, bn, res) ==
    /\ fs' = res.fs
    /\ repo' = res.repo
    /\ last' = [op |-> "c_update", branch |-> bn, num |-> num,
                exc |-> res.exc, ret |-> res.backup]
    /\ UNCHANGED vcr

\* the update command
CUpdateCall(num, bn, x, ord) ==
    CUpdateDone(num, bn, c_update(fs, repo, num, bn, x.bad, x.rmfail, x.gone, ord))

CUpdate(cap, P, ords) ==
    \E x \in CUpdateFailures(fs, repo.branches[repo.defbranch].path, P) :
      \E bn \in BranchArgs, num \in Nums(cap), ord \in ords :
        CUpdateCall(num, bn, x, ord) /\ Within(repo', cap)

\* The library: commits and updates of a nested tree.
Next ==
    \/ UserWrite(UserWrites)
    \/ UserMkdir(UserDirs)
    \/ UserRemove(UserFiles \cup UserDirs)
    \/ UserTouch(UserTouches)
    \/ Commit(MaxRevisions, UserFiles \cup UserDirs)
    \/ Update(MaxRevisions, Orders)

Spec == Init /\ [][Next]_vars

\* Longer histories of a flat tree of two files.
NextShare ==
    \/ UserWrite(ShareWrites)
    \/ UserRemove(ShareFiles)
    \/ Commit(MaxChain, ShareFiles)
    \/ Update(MaxChain, Orders)

SpecShare == Init /\ [][NextShare]_vars

\* The library with the path setter and the update command.
NextCmd ==
    \/ UserWrite(CmdWrites)
    \/ UserMkdir(CmdDirs)
    \/ UserRemove(CmdFiles \cup CmdDirs)
    \/ Commit(MaxRevisions, CmdFiles)
    \/ Update(MaxRevisions, CmdOrders)
    \/ SetPath
    \/ CUpdate(MaxRevisions, CmdFiles, CmdOrders)

SpecCmd == Init /\ [][NextCmd]_vars

(***************************************************************************)
(* c_ren: the rename command on the repository r it loaded, branchname     *)
(* being the -b option ("" when not given) and newname its argument:       *)
(* [exc, repo].  The branch is taken out of the dict, named anew and       *)
(* stored under the new key, whatever that key held.                       *)
(***************************************************************************)
\* del(repo.branches[branchname]); b.name = args[0]; repo.branches[args[0]] = b
c_ren_move(r, bn, newname) ==
    [n \in (DOMAIN r.branches \ {bn}) \cup {newname} |->
        IF n = newname THEN [r.branches[bn] EXCEPT !.name = newname]
        ELSE r.branches[n]]

c_ren(r, branchname, newname) ==
    LET bn == IF branchname # "" THEN branchname ELSE r.defbranch
    IN  IF ~has_branch(r, bn) THEN [exc |-> "Usage", repo |-> r]
        ELSE IF r.defbranch = bn
        THEN set_defbranch([r EXCEPT !.branches = c_ren_move(r, bn, newname)], newname)
        ELSE [exc |-> "None", repo |-> [r EXCEPT !.branches = c_ren_move(r, bn, newname)]]

\* Revision.datasize() of a revision of the default branch: last.num is the
\* revision's index and last.size what the call returned
Datasize ==
    \E i \in 1..Len(repo.branches[repo.defbranch].revisions) :
        /\ last' = [op |-> "datasize", branch |-> "", num |-> i - 1, exc |-> "None",
                    ret |-> FALSE,
                    size |-> datasize(repo.branches[repo.defbranch].revisions[i].root)]
        /\ UNCHANGED <<fs, repo, vcr>>

\* The sizes of the revisions of a tree of two depths.
NextSize ==
    \/ UserWrite(SizeWrites)
    \/ UserMkdir(SizeDirs)
    \/ UserRemove(SizeFiles \cup SizeDirs)
    \/ Commit(MaxRevisions, {})
    \/ Datasize

SpecSize == Init /\ [][NextSize]_vars

(***************************************************************************)
(* The update command in two steps.  The first runs it up to the return of *)
(* the backup commit, and to its end when it does not come to rmtree; the  *)
(* second is rmtree and what follows.  Between the two last.op is          *)
(* "backup", last.ret is has_backup, and nothing else runs.                *)
(***************************************************************************)
Quiet == last.op # "backup"

\* whether the command, given num and bn, comes to rmtree
ReachesWipe(f, r, num, bn, bad) ==
    LET name == IF bn # "" THEN bn ELSE r.defbranch
    IN  /\ has_branch(r, name)
        /\ has_revision(r.branches[name], num)
        /\ isdir(f, r.branches[name].path)
        /\ c_update_backup(f, r, name, bad).exc = "None"

CUpdateBacked(num, bn, bk) ==
    /\ repo' = bk.repo
    /\ last' = [op |-> "backup", branch |-> bn, num |-> num,
                exc |-> "None", ret |-> bk.ret]
    /\ UNCHANGED <<fs, vcr>>

CUpdateBackup(cap, P, ords) ==
    /\ Quiet
    /\ \E bn \in BranchArgs, num \in Nums(cap), bad \in ReadFailures(P) :
         IF ReachesWipe(fs, repo, num, bn, bad)
         THEN CUpdateBacked(num, bn,
                  c_update_backup(fs, repo,
                                  IF bn # "" THEN bn ELSE repo.defbranch, bad))
         ELSE \E ord \in ords :
                CUpdateCall(num, bn, [bad |-> bad, rmfail |-> FALSE, gone |-> {}], ord)

\* what rmtree may do: succeed, or fail after it removed some entries
WipeFailures(f, path) ==
    {[rmfail |-> FALSE, gone |-> {}]}
      \cup {[rmfail |-> TRUE, gone |-> g] : g \in RmtreePartial(f, path)}

CUpdateWipe(cap, ords) ==
    /\ last.op = "backup"
    /\ \E ord \in ords :
         \E x \in WipeFailures(fs,
                   repo.branches[IF last.branch # "" THEN last.branch
                                 ELSE repo.defbranch].path) :
           /\ CUpdateDone(last.num, last.branch,
                  c_update_backed(fs, repo,
                      [exc |-> "None", ret |-> last.ret, repo |-> repo],
                      last.num,
                      IF last.branch # "" THEN last.branch ELSE repo.defbranch,
                      x.rmfail, x.gone, ord))
           /\ Within(repo', cap)

NextStep ==
    \/ Quiet /\ UserWrite(CmdWrites)
    \/ Quiet /\ UserMkdir(CmdDirs)
    \/ Quiet /\ UserRemove(CmdFiles \cup CmdDirs)
    \/ Quiet /\ Commit(MaxRevisions, CmdFiles)
    \/ CUpdateBackup(MaxRevisions, CmdFiles, CmdOrders)
    \/ CUpdateWipe(MaxRevisions, CmdOrders)

SpecStep == Init /\ [][NextStep]_vars

\* Repository.add_branch(branchname, path)
AddBranch ==
    \E bn \in BranchNames, p \in AddPaths :
        LET res == add_branch(fs, repo, bn, p)
        IN  /\ repo' = res.repo
            /\ last' = [Idle EXCEPT !.op = "add_branch", !.branch = bn, !.exc = res.exc]
            /\ UNCHANGED <<fs, vcr>>

\* Repository.remove_branch(branchname)
RemoveBranch ==
    \E bn \in BranchNames :
        LET res == remove_branch(repo, bn)
        IN  /\ repo' = res.repo
            /\ last' = [Idle EXCEPT !.op = "remove_branch", !.branch = bn, !.exc = res.exc]
            /\ UNCHANGED <<fs, vcr>>

\* repo.defbranch = branchname
SetDefBranch ==
    \E bn \in BranchNames :
        LET res == set_defbranch(repo, bn)
        IN  /\ repo' = res.repo
            /\ last' = [Idle EXCEPT !.op = "defbranch", !.branch = bn, !.exc = res.exc]
            /\ UNCHANGED <<fs, vcr>>

\* commit and update with the branch names of the set names
CommitOn(names, cap, P) ==
    \E bn \in names, desc \in Descs, bad \in ReadFailures(P) :
        CommitCall(desc, bn, bad) /\ Within(repo', cap)

UpdateOn(names, nums, ords) ==
    \E bn \in names, num \in nums, ord \in ords : UpdateCall(num, bn, ord)

\* The library with several branches.
NextBranch ==
    \/ UserWrite(BranchWrites)
    \/ UserRemove(BranchFiles)
    \/ AddBranch
    \/ RemoveBranch
    \/ SetDefBranch
    \/ CommitOn(BranchCallArgs, MaxRevisions, BranchFiles)
    \/ UpdateOn(BranchCallArgs, BranchNums, CmdOrders)

SpecBranch == Init /\ [][NextBranch]_vars

\* Repository.save(name, path): it writes the whole stream or is interrupted
Save ==
    \E interrupted \in BOOLEAN :
      \E cut \in SaveCuts(repo, interrupted) :
        /\ vcr' = RepositorySave(repo, cut)
        /\ last' = [Idle EXCEPT !.op = "save",
                                !.exc = IF interrupted THEN "Interrupt" ELSE "None"]
        /\ UNCHANGED <<fs, repo>>

\* repo = Repository.load(name, path)
Load ==
    LET ld == RepositoryLoad(vcr)
    IN  /\ repo' = (IF ld.exc = "None" THEN ld.repo ELSE repo)
        /\ last' = [Idle EXCEPT !.op = "load", !.exc = ld.exc]
        /\ UNCHANGED <<fs, vcr>>

\* the files that others leave under the repository's name: none, the
\* pickle of a dict, the pickle of a Repository of another version
ForeignFiles ==
    {NoFile, [exists |-> TRUE, stream |-> pickle_dump("dict", NewRepository(HomePath))]}
      \cup {[exists |-> TRUE,
              stream |-> pickle_dump("Repository",
                                     [NewRepository(HomePath) EXCEPT !.ver = v])] :
               v \in OtherVersions}

Foreign ==
    \E vc \in ForeignFiles :
        /\ vcr' = vc
        /\ last' = [Idle EXCEPT !.op = "foreign"]
        /\ UNCHANGED <<fs, repo>>

\* the update command when _load_repo raises
CUpdateNoRepo ==
    /\ load_repo(vcr).exc # "None"
    /\ last' = [Idle EXCEPT !.op = "c_update", !.exc = load_repo(vcr).exc]
    /\ UNCHANGED <<fs, repo, vcr>>

\* the update command on the repository it loads
CUpdateLoaded(cap, P, ords) ==
    /\ load_repo(vcr).exc = "None"
    /\ \E x \in CUpdateFailures(fs,
              load_repo(vcr).repo.branches[load_repo(vcr).repo.defbranch].path, P) :
         \E bn \in BranchArgs, num \in Nums(cap), ord \in ords :
           /\ CUpdateDone(num, bn, c_update(fs, load_repo(vcr).repo, num, bn,
                                            x.bad, x.rmfail, x.gone, ord))
           /\ Within(repo', cap)

\* The library and the update command with the repository file.
NextFile ==
    \/ UserWrite(CmdWrites)
    \/ UserMkdir(CmdDirs)
    \/ UserRemove(CmdFiles \cup CmdDirs)
    \/ Commit(MaxRevisions, CmdFiles)
    \/ AddBranch
    \/ Save
    \/ Load
    \/ Foreign
    \/ CUpdateNoRepo
    \/ CUpdateLoaded(MaxRevisions, CmdFiles, CmdOrders)

SpecFile == Init /\ [][NextFile]_vars

\* the rename command when _load_repo raises
CRenNoRepo ==
    /\ load_repo(vcr).exc # "None"
    /\ \E bn \in BranchCallArgs, n \in BranchNames :
         last' = [op |-> "c_ren", branch |-> bn, num |-> 0,
                  exc |-> load_repo(vcr).exc, ret |-> FALSE, newname |-> n]
    /\ UNCHANGED <<fs, repo, vcr>>

\* the rename command has run with the outcome res: it saves what it renamed
CRenDone(bn, n, res) ==
    /\ repo' = res.repo
    /\ vcr' = (IF res.exc = "None"
               THEN RepositorySave(res.repo, Len(pickle_dump("Repository", res.repo)))
               ELSE vcr)
    /\ last' = [op |-> "c_ren", branch |-> bn, num |-> 0,
                exc |-> res.exc, ret |-> FALSE, newname |-> n]
    /\ UNCHANGED fs

\* the rename command on the repository it loads
CRenLoaded ==
    /\ load_repo(vcr).exc = "None"
    /\ \E bn \in BranchCallArgs, n \in BranchNames :
         CRenDone(bn, n, c_ren(load_repo(vcr).repo, bn, n))

NextRen ==
    \/ UserWrite(BranchWrites)
    \/ AddBranch
    \/ CommitOn(BranchCallArgs, MaxRevisions, BranchFiles)
    \/ Save
    \/ CRenNoRepo
    \/ CRenLoaded

SpecRen == Init /\ [][NextRen]_vars

(***************************************************************************)
(* What the properties speak of.                                           *)
(***************************************************************************)
\* the trunk branch and its revision list
Trunk == repo.branches[DEFAULT_BRANCH]
Revs == Trunk.revisions

\* the content of a stored tree: an entry <<path, kind, bytes>> for every
\* file and directory below the root, the path counted from the root
RECURSIVE TreeEntries(_, _)
TreeEntries(dir, rel) ==
    {<<Append(rel, k), "file", getdata(dir.files[k])>> : k \in DOMAIN dir.files}
      \cup {<<Append(rel, k), "dir", <<>>>> : k \in DOMAIN dir.dirs}
      \cup UNION {TreeEntries(dir.dirs[k], Append(rel, k)) : k \in DOMAIN dir.dirs}

\* the File nodes of a stored tree: <<path, node>>
RECURSIVE TreeFiles(_, _)
TreeFiles(dir, rel) ==
    {<<Append(rel, k), dir.files[k]>> : k \in DOMAIN dir.files}
      \cup UNION {TreeFiles(dir.dirs[k], Append(rel, k)) : k \in DOMAIN dir.dirs}

\* the File node at a path of a stored tree, NoNode when there is none
FileAt(dir, p) ==
    IF \E x \in TreeFiles(dir, <<>>) : x[1] = p
    THEN (CHOOSE x \in TreeFiles(dir, <<>>) : x[1] = p)[2]
    ELSE NoNode

\* the content of the directory p on disk, in the same form
DiskEntries(f, p) ==
    {<<SubSeq(q, Len(p) + 1, Len(q)), f[q].kind, f[q].data>> : q \in Below(f, p) \ {p}}

\* the directory p of f holds every entry of the stored tree, with its content
RestoredAt(f, p, root) ==
    /\ isdir(f, p)
    /\ \A e \in TreeEntries(root, <<>>) :
          /\ exists(f, p \o e[1])
          /\ f[p \o e[1]].kind = e[2]
          /\ f[p \o e[1]].data = e[3]

\* n is an index of a list of k elements
InRange(n, k) == 0 - k <= n /\ n <= k - 1

\* the revision that index n of the list rs denotes
RevAt(rs, n) == IF n >= 0 THEN rs[n + 1] ELSE rs[Len(rs) + n + 1]

\* the step is a call of commit, of update
CommitStep == last'.op = "commit"
UpdateStep == last'.op = "update"

(***************************************************************************)
(* C1: a commit that follows a completed commit with no change of the      *)
(* filesystem between them appends nothing and, when it completes, returns *)
(* false; and a commit that returns true appends exactly one revision, so  *)
(* the two calls append one revision when the first had something to       *)
(* record.                                                                 *)
(***************************************************************************)
C1_IdempotentCommit ==
    [][CommitStep =>
        /\ (last'.ret => Len(Revs') = Len(Revs) + 1)
        /\ (~last'.ret => Len(Revs') = Len(Revs))
        /\ (last.op = "commit" /\ last.exc = "None" =>
              /\ repo' = repo
              /\ (last'.exc = "None" => ~last'.ret))]_vars

\* the second of two successive commits returned false, the first having
\* appended a revision that holds a file
C1_Witness ==
    /\ last.op = "commit" /\ last.exc = "None" /\ ~last.ret
    /\ Len(Revs) = 2
    /\ TreeFiles(Revs[2].root, <<>>) # {}
    /\ DiskEntries(fs, Trunk.path) = TreeEntries(Revs[2].root, <<>>)

(***************************************************************************)
(* C2: a commit that completes returns true and appends one revision,      *)
(* numbered by its place and holding what is on disk, if and only if the   *)
(* history is empty or the content on disk (the files' bytes, the entries  *)
(* at every depth, each being a file or a directory) differs from the      *)
(* latest revision's; modification times do not count.  When it returns    *)
(* false the repository is unchanged.                                      *)
(***************************************************************************)
C2_ChangeDetection ==
    [][CommitStep /\ last'.exc = "None" =>
        LET k == Len(Revs)
            disk == DiskEntries(fs, Trunk.path)
            changed == k = 0 \/ disk # TreeEntries(Revs[k].root, <<>>)
        IN  /\ last'.ret = changed
            /\ (changed =>
                  /\ Len(Revs') = k + 1
                  /\ SubSeq(Revs', 1, k) = Revs
                  /\ Revs'[k + 1].num = k
                  /\ TreeEntries(Revs'[k + 1].root, <<>>) = disk)
            /\ (~changed => repo' = repo)]_vars

\* a commit returned false although a file on disk carries another
\* modification time than the latest revision recorded for it
C2_Witness ==
    /\ last.op = "commit" /\ last.exc = "None" /\ ~last.ret
    /\ Len(Revs) >= 1
    /\ \E x \in TreeFiles(Revs[Len(Revs)].root, <<>>) :
          /\ exists(fs, Trunk.path \o x[1])
          /\ fs[Trunk.path \o x[1]].mtime # x[2].mtime

(***************************************************************************)
(* C3: in every branch the revision at place i has number i, the first     *)
(* revision has no prev, and every later one has the revision before it as *)
(* its prev (the stored revisions being distinct objects).                 *)
(***************************************************************************)
C3_Numbering ==
    \A b \in DOMAIN repo.branches :
        LET rs == repo.branches[b].revisions
        IN  \A i \in 1..Len(rs) :
              /\ rs[i].num = i - 1
              /\ rs[i].prev = (IF i = 1 THEN NoRev ELSE rs[i - 1].id)
              /\ \A j \in 1..Len(rs) : j # i => rs[j].id # rs[i].id

\* an update command took a backup, wiped the directory, discarded the
\* backup and restored, on a branch of two revisions pointed at another path
C3_Witness ==
    /\ last.op = "c_update" /\ last.exc = "None" /\ last.ret
    /\ Len(Revs) = 2
    /\ Trunk.path = OtherPath

(***************************************************************************)
(* C4: in a stored revision a file's buffer is the buffer of the revision  *)
(* before it exactly when that revision holds a file at the same path with *)
(* the same content; is_changed is false exactly then; otherwise the       *)
(* buffer is a new one, which no earlier revision holds at any path, also  *)
(* when an older revision held the same bytes.                             *)
(***************************************************************************)
C4_Sharing ==
    \A i \in 1..Len(Revs) :
      \A x \in TreeFiles(Revs[i].root, <<>>) :
        LET file == x[2]
            pf == IF i = 1 THEN NoNode ELSE FileAt(Revs[i - 1].root, x[1])
            same == pf.kind = "file" /\ getdata(pf) = getdata(file)
        IN  /\ (pf.kind = "file" => (file.zdata.id = pf.zdata.id <=> same))
            /\ (is_changed(file) <=> ~same)
            /\ (~same =>
                  \A j \in 1..(i - 1) :
                    \A y \in TreeFiles(Revs[j].root, <<>>) :
                      y[2].zdata.id # file.zdata.id)

\* of three revisions the third holds file a with the bytes of the first,
\* the second having held others: its buffer is not the first's, while
\* file b shares its buffer with the second revision
C4_Witness ==
    /\ Len(Revs) = 3
    /\ LET a1 == FileAt(Revs[1].root, <<"a">>)
           a2 == FileAt(Revs[2].root, <<"a">>)
           a3 == FileAt(Revs[3].root, <<"a">>)
           b2 == FileAt(Revs[2].root, <<"b">>)
           b3 == FileAt(Revs[3].root, <<"b">>)
       IN  /\ a1.kind = "file" /\ a2.kind = "file" /\ a3.kind = "file"
           /\ b2.kind = "file" /\ b3.kind = "file"
           /\ getdata(a1) = getdata(a3) /\ getdata(a1) # getdata(a2)
           /\ a3.zdata.id # a1.zdata.id
           /\ b3.zdata.id = b2.zdata.id
           /\ ~is_changed(b3) /\ is_changed(a3)

(***************************************************************************)
(* C5: every stored revision, restored into an empty directory of its      *)
(* root's name and captured again, gives a root Directory equal to its own *)
(* by Directory.__eq__, whichever way the comparison is made.              *)
(***************************************************************************)
C5_RoundTrip ==
    \A i \in 1..Len(Revs), ord \in Orders :
        LET root == Revs[i].root
            empty == [p \in {<<>>, <<root.name>>} |-> DirEntry]
            res == DirectoryUpdate(empty, <<>>, root, ord)
            cap == DirectoryCommit(res.fs, <<>>, root.name, NoNode, 0, {})
        IN  /\ res.ok
            /\ cap.ok
            /\ DirectoryEq(cap.node, root, <<>>, <<>>)
            /\ DirectoryEq(root, cap.node, <<>>, <<>>)

\* the history holds a revision with an empty directory and one with a
\* nested empty file
C5_Witness ==
    /\ Len(Revs) = 2
    /\ <<<<"b">>, "dir", <<>>>> \in TreeEntries(Revs[1].root, <<>>)
    /\ TreeFiles(Revs[1].root, <<>>) = {}
    /\ <<<<"b", "a">>, "file", <<>>>> \in TreeEntries(Revs[2].root, <<>>)

(***************************************************************************)
(* C6: an update never removes an entry of the filesystem; when it         *)
(* completes, every file and directory of the revision is under the        *)
(* monitored path with the revision's content, and every entry that was on *)
(* disk and is no part of the revision is as it was.                       *)
(***************************************************************************)
C6_AdditiveRestore ==
    [][UpdateStep =>
        /\ DOMAIN fs \subseteq DOMAIN fs'
        /\ (last'.exc = "None" =>
              LET root == RevAt(Revs, last'.num).root
                  part == {Trunk.path} \cup
                            {Trunk.path \o e[1] : e \in TreeEntries(root, <<>>)}
              IN  /\ RestoredAt(fs', Trunk.path, root)
                  /\ \A q \in DOMAIN fs \ part : fs'[q] = fs[q])]_vars

\* an update completed and the disk holds an entry that the revision it
\* restored does not
C6_Witness ==
    /\ last.op = "update" /\ last.exc = "None"
    /\ InRange(last.num, Len(Revs))
    /\ \E e \in DiskEntries(fs, Trunk.path) :
          \A t \in TreeEntries(RevAt(Revs, last.num).root, <<>>) : t[1] # e[1]
    /\ TreeEntries(RevAt(Revs, last.num).root, <<>>) # {}

(***************************************************************************)
(* C7: no commit and no update changes a stored revision: every revision   *)
(* of the list stays at its place with its entries and their content, a    *)
(* revision holds what was on disk when it was appended, and an update     *)
(* that completes writes that content.                                     *)
(***************************************************************************)
C7_StoredImmutable ==
    [][/\ \A i \in 1..Len(Revs) :
            /\ i <= Len(Revs')
            /\ TreeEntries(Revs'[i].root, <<>>) = TreeEntries(Revs[i].root, <<>>)
       /\ (Len(Revs') > Len(Revs) =>
            TreeEntries(Revs'[Len(Revs')].root, <<>>) = DiskEntries(fs, Trunk.path))
       /\ (UpdateStep /\ last'.exc = "None" =>
            RestoredAt(fs', Trunk.path, RevAt(Revs', last'.num).root))]_vars

\* a file was committed, removed, and its removal committed; updating to
\* the first revision has put it back
C7_Witness ==
    /\ last.op = "update" /\ last.exc = "None" /\ last.num = 0
    /\ Len(Revs) = 2
    /\ <<<<"b", "a">>, "file", <<1>>>> \in TreeEntries(Revs[1].root, <<>>)
    /\ TreeFiles(Revs[2].root, <<>>) = {}
    /\ <<<<"b", "a">>, "file", <<1>>>> \in DiskEntries(fs, Trunk.path)

(***************************************************************************)
(* C8: has_revision(n) is true exactly for -k <= n <= k-1 on a branch of k *)
(* revisions; an update raises NoSuchRevisionError exactly for the other   *)
(* n, and with a negative n in range it restores revision k+n.             *)
(***************************************************************************)
C8_NegativeIndex ==
    [][/\ \A n \in Nums(MaxChain) :
            has_revision(Trunk, n) <=> InRange(n, Len(Revs))
       /\ (UpdateStep =>
            /\ (last'.exc = "NoSuchRevisionError" <=> ~InRange(last'.num, Len(Revs)))
            /\ (last'.exc = "None" /\ last'.num < 0 =>
                  RestoredAt(fs', Trunk.path, Revs[Len(Revs) + last'.num + 1].root)))]_vars

\* update(-1) restored the latest of two revisions, whose file the first
\* revision holds with other bytes
C8_Witness ==
    /\ last.op = "update" /\ last.exc = "None" /\ last.num = -1
    /\ Len(Revs) = 2
    /\ <<<<"b", "a">>, "file", <<>>>> \in TreeEntries(Revs[1].root, <<>>)
    /\ <<<<"b", "a">>, "file", <<1>>>> \in TreeEntries(Revs[2].root, <<>>)
    /\ <<<<"b", "a">>, "file", <<1>>>> \in DiskEntries(fs, Trunk.path)

(***************************************************************************)
(* C9: an update with an index outside [-k, k-1] raises                    *)
(* NoSuchRevisionError and leaves the filesystem and the repository as     *)
(* they were.                                                              *)
(***************************************************************************)
C9_NoSuchRevision ==
    [][UpdateStep /\ ~InRange(last'.num, Len(Revs)) =>
        /\ last'.exc = "NoSuchRevisionError"
        /\ fs' = fs
        /\ repo' = repo]_vars

\* update(k) was refused on a branch of k >= 1 revisions
C9_Witness ==
    /\ last.op = "update" /\ last.exc = "NoSuchRevisionError"
    /\ Len(Revs) >= 1
    /\ last.num = Len(Revs)

(***************************************************************************)
(* C10: a commit that raises leaves the repository as it was; it raises    *)
(* NotDirectoryError when the monitored path is no directory; and a        *)
(* revision is appended only by a commit that completed, and holds all     *)
(* that is on disk.                                                        *)
(***************************************************************************)
C10_AllOrNothing ==
    [][CommitStep =>
        /\ (last'.exc # "None" => repo' = repo)
        /\ (~isdir(fs, Trunk.path) => last'.exc = "NotDirectoryError")
        /\ (Len(Revs') > Len(Revs) =>
              /\ last'.exc = "None"
              /\ TreeEntries(Revs'[Len(Revs')].root, <<>>) =
                   DiskEntries(fs, Trunk.path))]_vars

\* a commit failed reading a nested file that differs from the latest
\* revision's
C10_Witness ==
    /\ last.op = "commit" /\ last.exc = "IOError"
    /\ Len(Revs) = 1
    /\ exists(fs, <<"d", "b", "a">>)
    /\ DiskEntries(fs, Trunk.path) # TreeEntries(Revs[1].root, <<>>)

(***************************************************************************)
(* C11: in every state the default branch names a branch of the            *)
(* repository's branches.                                                  *)
(***************************************************************************)
C11_DefaultPresent == has_branch(repo, repo.defbranch)

\* the branches of r other than bn are in r2 as they are in r
OthersKept(r, r2, bn) ==
    /\ DOMAIN r2.branches = DOMAIN r.branches
    /\ r2.defbranch = r.defbranch
    /\ \A n \in DOMAIN r.branches \ {bn} : r2.branches[n] = r.branches[n]

(***************************************************************************)
(* C12: add_branch raises BranchExistsError exactly for a name the         *)
(* repository holds; remove_branch, the setting of the default branch,     *)
(* commit and update raise NoSuchBranchError exactly for a given name it   *)
(* does not hold; a call that raises one of the two leaves the repository  *)
(* and the filesystem as they were; commit and update without a name act   *)
(* on the default branch.                                                  *)
(***************************************************************************)
C12_BranchNameErrors ==
    [][/\ (last'.op = "add_branch" =>
              (last'.exc = "BranchExistsError" <=> has_branch(repo, last'.branch)))
       /\ (last'.op \in {"remove_branch", "defbranch", "commit", "update"} =>
              (last'.exc = "NoSuchBranchError" <=>
                 last'.branch # "" /\ ~has_branch(repo, last'.branch)))
       /\ (last'.exc \in {"BranchExistsError", "NoSuchBranchError"} =>
              repo' = repo /\ fs' = fs /\ vcr' = vcr)
       /\ (last'.op = "commit" /\ last'.branch = "" /\ has_branch(repo, repo.defbranch) =>
              LET def == repo.defbranch
                  rs == repo.branches[def].revisions
              IN  /\ OthersKept(repo, repo', def)
                  /\ (last'.ret =>
                        /\ repo'.branches[def].revisions # rs
                        /\ SubSeq(repo'.branches[def].revisions, 1, Len(rs)) = rs)
                  /\ (~last'.ret => repo' = repo))
       /\ (last'.op = "update" /\ last'.branch = "" /\ has_branch(repo, repo.defbranch) =>
              LET b == repo.branches[repo.defbranch]
              IN  /\ (last'.exc = "NoSuchRevisionError" <=>
                         ~InRange(last'.num, Len(b.revisions)))
                  /\ (last'.exc = "None" =>
                         RestoredAt(fs', b.path, RevAt(b.revisions, last'.num).root)))]_vars

\* a commit named a branch the repository does not hold, while the disk
\* holds what the default branch has not recorded
C12_Witness ==
    /\ last.op = "commit" /\ last.branch = "dev" /\ last.exc = "NoSuchBranchError"
    /\ ~has_branch(repo, "dev")
    /\ has_branch(repo, repo.defbranch)
    /\ LET rs == repo.branches[repo.defbranch].revisions
       IN  /\ Len(rs) = 1
           /\ DiskEntries(fs, HomePath) # TreeEntries(rs[1].root, <<>>)

\* the buffers that the revisions of a branch hold
BranchBuffers(b) ==
    UNION {{x[2].zdata.id : x \in TreeFiles(b.revisions[i].root, <<>>)} :
             i \in 1..Len(b.revisions)}

\* the branch that a call with the name bn acts on
Resolved(r, bn) == IF bn # "" THEN bn ELSE r.defbranch

(***************************************************************************)
(* C13: add_branch makes a branch of no revisions, also on the path of     *)
(* another branch, and leaves the other branches as they are; the first    *)
(* revision of every branch has number 0 and no prev; no buffer is held by *)
(* two branches; and a commit or an update leaves every branch but the one *)
(* it acts on as it was.                                                   *)
(***************************************************************************)
C13_BranchesIndependent ==
    [][/\ (last'.op = "add_branch" /\ last'.exc = "None" =>
              /\ ~has_branch(repo, last'.branch)
              /\ has_branch(repo', last'.branch)
              /\ repo'.branches[last'.branch].revisions = <<>>
              /\ \A n \in DOMAIN repo.branches : repo'.branches[n] = repo.branches[n])
       /\ (last'.op \in {"commit", "update"} =>
              OthersKept(repo, repo', Resolved(repo, last'.branch)))
       /\ \A n \in DOMAIN repo'.branches :
              LET rs == repo'.branches[n].revisions
              IN  /\ (rs # <<>> => rs[1].num = 0 /\ rs[1].prev = NoRev)
                  /\ \A o \in DOMAIN repo'.branches \ {n} :
                        BranchBuffers(repo'.branches[n])
                          \cap BranchBuffers(repo'.branches[o]) = {}]_vars

\* the first commit on a branch added on the path of the trunk, which has
\* recorded the same file with the same bytes
C13_Witness ==
    /\ last.op = "commit" /\ last.branch = "dev" /\ last.ret
    /\ has_branch(repo, "trunk") /\ has_branch(repo, "dev")
    /\ repo.branches["dev"].path = repo.branches["trunk"].path
    /\ Len(repo.branches["dev"].revisions) = 1
    /\ Len(repo.branches["trunk"].revisions) = 2
    /\ LET t == FileAt(repo.branches["trunk"].revisions[2].root, <<"a">>)
           d == FileAt(repo.branches["dev"].revisions[1].root, <<"a">>)
       IN  /\ t.kind = "file" /\ d.kind = "file"
           /\ getdata(t) = getdata(d)
           /\ t.zdata.id # d.zdata.id

\* the step is a run of the update command
CUpdateStep == last'.op = "c_update"

(***************************************************************************)
(* C14: an update command whose removal of the directory fails, whatever   *)
(* it removed before, ends with that failure raised again, after it        *)
(* restored the branch's latest revision: every file that was on disk is   *)
(* there with its content, the directory holds what it held before and not *)
(* the requested revision, and the revision list is the one before, with   *)
(* the backup after it when one was taken.                                 *)
(***************************************************************************)
C14_Rollback ==
    [][CUpdateStep /\ last'.exc = "OSError" =>
        LET path == Trunk.path
            rs == Revs'
        IN  /\ \A q \in DOMAIN fs :
                  fs[q].kind = "file" =>
                    /\ exists(fs', q)
                    /\ fs'[q].kind = "file"
                    /\ fs'[q].data = fs[q].data
            /\ DiskEntries(fs', path) = DiskEntries(fs, path)
            /\ rs # <<>>
            /\ TreeEntries(rs[Len(rs)].root, <<>>) = DiskEntries(fs', path)
            /\ rs = (IF last'.ret THEN Append(Revs, rs[Len(rs)]) ELSE Revs)
            /\ (last'.ret => rs[Len(rs)].desc = "BACKUP")]_vars

\* the removal failed in an update command that had taken a backup of a
\* file; the file is on disk, and the requested revision does not hold it
C14_Witness ==
    /\ last.op = "c_update" /\ last.exc = "OSError" /\ last.ret
    /\ Len(Revs) = 2
    /\ Revs[2].desc = "BACKUP"
    /\ last.num = 0
    /\ <<<<"b">>, "file", <<1>>>> \in DiskEntries(fs, Trunk.path)
    /\ <<<<"b">>, "file", <<1>>>> \notin TreeEntries(Revs[1].root, <<>>)

\* the repository that a command finds in the repository file
Loaded == RepositoryLoad(vcr).repo

(***************************************************************************)
(* C15: no run of the update command writes the repository file; and when  *)
(* the command found the monitored path a directory and ended without      *)
(* error, the repository in memory is the one it loaded, every revision    *)
(* list as it was and the backup gone, and the directory holds the         *)
(* revision that the requested index, negative or not, denoted in the      *)
(* loaded list.                                                            *)
(***************************************************************************)
C15_BackupDiscarded ==
    [][CUpdateStep =>
        /\ vcr' = vcr
        /\ (/\ RepositoryLoad(vcr).exc = "None"
            /\ last'.exc = "None"
            /\ isdir(fs, Loaded.branches[Loaded.defbranch].path)
            => LET b == Loaded.branches[Loaded.defbranch]
               IN  /\ repo' = Loaded
                   /\ DiskEntries(fs', b.path) =
                        TreeEntries(RevAt(b.revisions, last'.num).root, <<>>))]_vars

\* an update command to index -1 took a backup of a disk that differed
\* from the two revisions of the file, wiped, and restored the second
C15_Witness ==
    /\ last.op = "c_update" /\ last.exc = "None" /\ last.ret /\ last.num = -1
    /\ RepositoryLoad(vcr).exc = "None"
    /\ repo = Loaded
    /\ Len(Revs) = 2
    /\ DiskEntries(fs, Trunk.path) = TreeEntries(Revs[2].root, <<>>)
    /\ DiskEntries(fs, Trunk.path) # TreeEntries(Revs[1].root, <<>>)

\* q is the path p without its trailing separators
Stripped(p, q) ==
    /\ IsPrefix(q, p)
    /\ \A i \in (Len(q) + 1)..Len(p) : p[i] = ""
    /\ (q # <<>> => q[Len(q)] # "")

\* the last component of a path
LastOf(p) == IF p = <<>> THEN "" ELSE p[Len(p)]

(***************************************************************************)
(* C16: a change of a branch's path leaves the branch with the given path  *)
(* without its trailing separators and with every revision as it was but   *)
(* for the name of its root, which is the last component of that path; the *)
(* other branches and the filesystem are as they were.  In every state the *)
(* root of every revision bears the last component of its branch's path,   *)
(* and an update writes nothing outside the monitored path.                *)
(***************************************************************************)
C16_PathChange ==
    [][/\ (last'.op = "path" =>
              LET b == repo.branches[last'.branch]
                  b2 == repo'.branches[last'.branch]
              IN  /\ \E p \in PathInputs : Stripped(p, b2.path)
                  /\ b2.name = b.name
                  /\ Len(b2.revisions) = Len(b.revisions)
                  /\ \A i \in 1..Len(b.revisions) :
                        /\ b2.revisions[i] =
                             [b.revisions[i] EXCEPT !.root.name = LastOf(b2.path)]
                        /\ TreeEntries(b2.revisions[i].root, <<>>) =
                             TreeEntries(b.revisions[i].root, <<>>)
                  /\ OthersKept(repo, repo', last'.branch)
                  /\ fs' = fs)
       /\ \A n \in DOMAIN repo'.branches :
              \A i \in 1..Len(repo'.branches[n].revisions) :
                repo'.branches[n].revisions[i].root.name = LastOf(repo'.branches[n].path)
       /\ (UpdateStep =>
              \A q \in DOMAIN fs' :
                (~exists(fs, q) \/ fs'[q] # fs[q]) => IsPrefix(Trunk.path, q))]_vars

\* the branch was pointed at a path that does not exist: its two
\* revisions, taken of the old path, bear the new name, and hold a file
C16_Witness ==
    /\ last.op = "path"
    /\ Trunk.path = OtherPath
    /\ ~exists(fs, OtherPath)
    /\ Len(Revs) = 2
    /\ Revs[1].root.name = "e" /\ Revs[2].root.name = "e"
    /\ TreeFiles(Revs[2].root, <<>>) # {}

\* a step of Repository.load, and what pickle.load gives for the file
LoadStep == last'.op = "load"
Unpickled == pickle_load(vcr.stream)

(***************************************************************************)
(* C17: Repository.load returns a repository exactly when the file         *)
(* deserializes to a Repository whose version is the model version, and    *)
(* then it returns the deserialized object as it is; when the file         *)
(* deserializes to another kind of object or to a Repository of another    *)
(* version it raises BadDataError; whenever it raises, nothing is          *)
(* returned.                                                               *)
(***************************************************************************)
C17_LoadValidation ==
    [][LoadStep =>
        LET ok == /\ vcr.exists
                  /\ Unpickled.exc = "None"
                  /\ Unpickled.obj.cls = "Repository"
                  /\ Unpickled.obj.ver = modelversion
        IN  /\ (last'.exc = "None") <=> ok
            /\ (vcr.exists /\ Unpickled.exc = "None" /\ ~ok => last'.exc = "BadDataError")
            /\ (ok => /\ repo'.branches = Unpickled.obj.branches
                      /\ repo'.defbranch = Unpickled.obj.defbranch
                      /\ repo'.ver = modelversion)
            /\ (~ok => repo' = repo)]_vars

\* a load of the complete pickle of a Repository of another version has
\* raised BadDataError
C17_Witness ==
    /\ last.op = "load" /\ last.exc = "BadDataError"
    /\ vcr.exists
    /\ Unpickled.exc = "None"
    /\ Unpickled.obj.cls = "Repository"
    /\ Unpickled.obj.ver \in OtherVersions

\* a step of Repository.save
SaveStep == last'.op = "save"

(***************************************************************************)
(* C18: whatever file a save leaves, complete or interrupted after any     *)
(* part of the stream, a load of it either fails or returns a repository   *)
(* equal to the one that was being saved; a save that was interrupted      *)
(* leaves a file whose load fails.                                         *)
(***************************************************************************)
C18_SaveAtomicity ==
    [][SaveStep =>
        /\ (RepositoryLoad(vcr').exc = "None" => RepositoryLoad(vcr').repo = repo)
        /\ (last'.exc = "Interrupt" => RepositoryLoad(vcr').exc # "None")
        /\ (last'.exc = "None" => RepositoryLoad(vcr').exc = "None")]_vars

\* a save of a repository of two branches was interrupted after the first
\* of them was written, and the repository has a revision: the load of the
\* file fails
C18_Witness ==
    /\ last.op = "save" /\ last.exc = "Interrupt"
    /\ Cardinality(DOMAIN repo.branches) = 2
    /\ Len(Revs) >= 1
    /\ Cardinality({i \in 1..Len(vcr.stream) : vcr.stream[i].op = "branch"}) = 1
    /\ RepositoryLoad(vcr).exc = "EOFError"

\* the steps of the update command in SpecStep: one that belongs to it, and
\* one that removes an entry from the disk
CommandStep == last'.op \in {"backup", "c_update"}
Removes == \E q \in DOMAIN fs : ~exists(fs', q)

(***************************************************************************)
(* C19: when rmtree is about to run, the backup commit has returned: the   *)
(* branch has a revision and the tree of its latest revision is the        *)
(* content of the monitored directory.  The command removes an entry from  *)
(* the disk only from there on, and when the backup commit raises the disk *)
(* and the repository are as they were.                                    *)
(***************************************************************************)
C19_BackupPrecedesWipe ==
    [][/\ (last'.op = "backup" =>
              LET b == repo'.branches[repo'.defbranch]
              IN  /\ Len(b.revisions) >= 1
                  /\ TreeEntries(b.revisions[Len(b.revisions)].root, <<>>) =
                       DiskEntries(fs', b.path))
       /\ (CommandStep /\ Removes => last.op = "backup")
       /\ (/\ last'.op = "c_update" /\ last.op # "backup"
           /\ isdir(fs, Trunk.path) /\ last'.exc = "IOError"
           => fs' = fs /\ repo' = repo)]_vars

\* rmtree is about to run after a backup commit that appended a second
\* revision, which holds a file
C19_Witness ==
    /\ last.op = "backup" /\ last.ret
    /\ Len(Revs) = 2
    /\ Revs[2].desc = "BACKUP"
    /\ TreeFiles(Revs[2].root, <<>>) # {}
    /\ TreeEntries(Revs[2].root, <<>>) # TreeEntries(Revs[1].root, <<>>)

(***************************************************************************)
(* C20: when the update command is given a valid number, finds the         *)
(* monitored path a directory and ends without error, the monitored        *)
(* directory holds the entries of the revision of that number, with their  *)
(* committed content, and no other entry.                                  *)
(***************************************************************************)
C20_ExactTree ==
    [][/\ CUpdateStep
       /\ last'.exc = "None"
       /\ isdir(fs, Trunk.path)
       /\ InRange(last'.num, Len(Revs))
       => DiskEntries(fs', Trunk.path) =
            TreeEntries(RevAt(Revs, last'.num).root, <<>>)]_vars

\* the command took a backup, wiped the directory and restored revision 0,
\* which is not the latest one: the directory holds revision 0 and not the
\* latest
C20_Witness ==
    /\ last.op = "c_update" /\ last.exc = "None" /\ last.ret /\ last.num = 0
    /\ Len(Revs) = 2
    /\ isdir(fs, Trunk.path)
    /\ DiskEntries(fs, Trunk.path) = TreeEntries(Revs[1].root, <<>>)
    /\ DiskEntries(fs, Trunk.path) # TreeEntries(Revs[2].root, <<>>)
    /\ TreeFiles(Revs[2].root, <<>>) # {}

\* a step of the rename command that ended without error
CRenStep == last'.op = "c_ren" /\ last'.exc = "None"

(***************************************************************************)
(* C21: the rename command, given the name n for the branch b of the       *)
(* repository it loaded, leaves under the key n the branch b as it was but *)
(* for its name field, which is n; the key b is gone; n is the default     *)
(* branch if b was; every other branch of the loaded repository is there   *)
(* as it was.  In every state each key of the branches dict is the name    *)
(* field of the branch under it.                                           *)
(***************************************************************************)
C21_Rename ==
    [][/\ (CRenStep =>
              LET b == IF last'.branch # "" THEN last'.branch ELSE Loaded.defbranch
                  n == last'.newname
              IN  /\ has_branch(repo', n)
                  /\ repo'.branches[n] = [Loaded.branches[b] EXCEPT !.name = n]
                  /\ (b # n => ~has_branch(repo', b))
                  /\ repo'.defbranch = (IF Loaded.defbranch = b THEN n
                                        ELSE Loaded.defbranch)
                  /\ \A m \in DOMAIN Loaded.branches \ {b} :
                        /\ has_branch(repo', m)
                        /\ repo'.branches[m] = Loaded.branches[m]
                  /\ RepositoryLoad(vcr').exc = "None"
                  /\ RepositoryLoad(vcr').repo = repo')
       /\ \A k \in DOMAIN repo'.branches : repo'.branches[k].name = k]_vars

\* the same, for a name that is the key of no other branch
C21_FreeName ==
    [][/\ (CRenStep =>
              LET b == IF last'.branch # "" THEN last'.branch ELSE Loaded.defbranch
                  n == last'.newname
              IN  n \notin DOMAIN Loaded.branches \ {b} =>
                  /\ has_branch(repo', n)
                  /\ repo'.branches[n] = [Loaded.branches[b] EXCEPT !.name = n]
                  /\ (b # n => ~has_branch(repo', b))
                  /\ repo'.defbranch = (IF Loaded.defbranch = b THEN n
                                        ELSE Loaded.defbranch)
                  /\ \A m \in DOMAIN Loaded.branches \ {b} :
                        /\ has_branch(repo', m)
                        /\ repo'.branches[m] = Loaded.branches[m])
       /\ \A k \in DOMAIN repo'.branches : repo'.branches[k].name = k]_vars

\* the Directory nodes of a stored tree, its root included
RECURSIVE TreeDirs(_)
TreeDirs(dir) == {dir} \cup UNION {TreeDirs(dir.dirs[k]) : k \in DOMAIN dir.dirs}

\* the sum, over the files S of a stored tree, of the lengths of their
\* compressed buffers, and of the lengths of their contents
RECURSIVE SumStored(_)
SumStored(S) ==
    IF S = {} THEN 0
    ELSE LET x == CHOOSE x \in S : TRUE
         IN  Len(x[2].zdata.z) + SumStored(S \ {x})

RECURSIVE SumContents(_)
SumContents(S) ==
    IF S = {} THEN 0
    ELSE LET x == CHOOSE x \in S : TRUE
         IN  Len(decompress(x[2].zdata.z)) + SumContents(S \ {x})

\* the state after a call of Revision.datasize
Sized == last.op = "datasize"

(***************************************************************************)
(* C22 as stated: the size reported for a revision is the sum of the       *)
(* lengths of the compressed buffers of all the files of its tree, and so  *)
(* is the size of every directory of it.                                   *)
(***************************************************************************)
C22_CompressedSize ==
    /\ (Sized => last.size = SumStored(TreeFiles(Revs[last.num + 1].root, <<>>)))
    /\ \A i \in 1..Len(Revs) : \A dir \in TreeDirs(Revs[i].root) :
          datasize(dir) = SumStored(TreeFiles(dir, <<>>))

(***************************************************************************)
(* C22 as amended: the size reported for a revision is the sum of the      *)
(* lengths of the contents, as decompressed, of all the files of its tree, *)
(* at every depth, and so is the size of every directory of it.            *)
(***************************************************************************)
C22_ContentSize ==
    /\ (Sized => last.size = SumContents(TreeFiles(Revs[last.num + 1].root, <<>>)))
    /\ \A i \in 1..Len(Revs) : \A dir \in TreeDirs(Revs[i].root) :
          datasize(dir) = SumContents(TreeFiles(dir, <<>>))

\* the size 3 was reported for a revision that holds a file of length 1 and,
\* one directory below, a file of length 2; their buffers are longer
C22_Witness ==
    /\ Sized /\ last.size = 3
    /\ LET root == Revs[last.num + 1].root
       IN  /\ getdata(FileAt(root, <<"a">>)) = <<1>>
           /\ getdata(FileAt(root, <<"b", "a">>)) = <<1, 2>>
           /\ SumStored(TreeFiles(root, <<>>)) = 5
====
